---- MODULE Spec2Model ----
(***************************************************************************)
(* A model of sondehub-analysis: bin_sonde_summaries.py (launch-site        *)
(* binning, the S3 uploader threads, the post-analysis) and utils.py        *)
(* (position_info, getDensity, seaLevelDescentRate, load_summary_file,      *)
(* calculate_averages).                                                     *)
(*                                                                          *)
(* Numbers.  Python floats are modelled by integers on grids on which the   *)
(* arithmetic of the code is exact:                                         *)
(*   - coordinates are whole grid steps along one meridian (lon = 0), where *)
(*     the central angle of position_info is |lat2 - lat1| and the great    *)
(*     circle distance is a whole number of GridMetres;                     *)
(*   - altitudes are whole metres, rates whole m/s.                         *)
(***************************************************************************)
EXTENDS Integers, Sequences, FiniteSets, TLC

VARIABLES
    \* ---- one call of bin_launch_data, statement by statement
    telemetry,      \* the first fix handed to bin_launch_data
    sites,          \* the launch-site index, in iteration (insertion) order
    radius,         \* km
    alt_limit,      \* m
    bin_pc,         \* "call", "scan", "returned", "exit1", "NameError", "idle"
    site_idx,       \* the next site of the for loop
    scan,           \* [min_dist, min_site, status, report]
    bin_ret,        \* the returned pair
    evaluated,      \* the stations handed to position_info so far
    \* ---- one call of getDensity, statement by statement
    altitude,       \* the argument, m
    layer,          \* the local i
    dens_pc,        \* "start", "while", "lookup", "done", "IndexError", "idle"
    density,        \* the returned density, mg/m3
    \* ---- one call of calculate_averages
    serial_data,    \* the flights of one site, in the dict's iteration order
    avg_pc,         \* "call", "done", "idle"
    avgs,           \* what calculate_averages returned
    \* ---- the program: the main thread and the uploader threads
    args,           \* the command line: s3_upload, postanalysis, updatesites,
                    \* binnedinput (given or not)
    file_list,      \* the content of each summary file, in the order of the glob
    objs,           \* the summary objects by identity: the index of the file
                    \* (or of the flight of the binned input) each was loaded from
    main_pc,        \* where the main thread is
    file_idx,       \* the file the for loop of line 230 is at
    binned_data,    \* per site, in insertion order: [site, serials, serial_data]
    counters,       \* count, unknown_sondes, already_allocated
    upload_queue,   \* the identities of the queued summaries
    uploader_threads_running,
    threads,        \* per uploader thread: [pc, data, i, dates, metadata]
    store,          \* the objects put to the bucket
    binned_file,    \* the file of --binnedoutput / --binnedinput
    sites_file,     \* the file of --updatesites
    post_idx,       \* the site the loop of line 313 is at
    post_avgs,      \* _avgs of each site the post-analysis has visited
    qsize_seen,     \* the queue sizes logged by line 298
    main_error      \* what the main thread reported when it died

confVars == <<sites, radius, alt_limit>>
binVars == <<telemetry, bin_pc, site_idx, scan, bin_ret, evaluated>>
densVars == <<altitude, layer, dens_pc, density>>
avgVars == <<serial_data, avg_pc, avgs>>
mainVars == <<args, file_list, objs, main_pc, file_idx, binned_data, counters,
              upload_queue, uploader_threads_running, threads, store,
              binned_file, sites_file, post_idx, post_avgs, qsize_seen,
              main_error>>
vars == <<confVars, binVars, densVars, avgVars, mainVars>>
\* what a call of bin_launch_data, of getDensity, of calculate_averages, and
\* what the program leave alone
notBin == <<densVars, avgVars, mainVars>>
notDens == <<confVars, binVars, avgVars, mainVars>>
notAvg == <<confVars, binVars, densVars, mainVars>>
notMain == <<binVars, densVars, avgVars>>

(***************************************************************************)
(* Bounds of the model.                                                     *)
(***************************************************************************)
\* latitudes are grid steps 0..MaxLat
MaxLat == 4
\* the launch-site index of the binning specification holds at most MaxSites sites
MaxSites == 3
\* calculate_averages is handed at most MaxFlights flights
MaxFlights == 6
\* the folder holds at most MaxFiles summary files
MaxFiles == 2
\* the uploader threads (NUM_THREADS = 100 in the code)
NumThreads == 2

(***************************************************************************)
(* Program constants.                                                       *)
(***************************************************************************)
\* min_dist = 999999999 and the no-site result (None, 999999999)
NoDist == 999999999
\* one grid step of latitude, as metres of great circle (a multiple of 1000,
\* so that great_circle_distance/1000.0 is a whole number of km)
GridMetres == 10 * 1000

\* calculate_averages has no result (Python's None), and is not running
AvgNone == [is_none |-> TRUE]
AvgIdle == serial_data = <<>> /\ avg_pc = "idle" /\ avgs = AvgNone

\* the program is not running
NoArgs == [s3_upload |-> FALSE, postanalysis |-> FALSE, updatesites |-> FALSE,
           binnedinput |-> FALSE]
NoCounters == [count |-> 1, unknown_sondes |-> 0, already_allocated |-> 0]
Unwritten == [written |-> FALSE, data |-> <<>>]
MainIdle ==
    /\ args = NoArgs /\ file_list = <<>> /\ objs = <<>> /\ main_pc = "idle"
    /\ file_idx = 1 /\ binned_data = <<>> /\ counters = NoCounters
    /\ upload_queue = <<>> /\ uploader_threads_running = TRUE
    /\ threads = <<>> /\ store = {} /\ binned_file = Unwritten
    /\ sites_file = Unwritten /\ post_idx = 1 /\ post_avgs = <<>>
    /\ qsize_seen = <<>> /\ main_error = "none"

\* getDensity is not running
DensIdle == altitude = 0 /\ layer = 0 /\ dens_pc = "idle" /\ density = 0

\* Python's None
None == "None"

Abs(x) == IF x < 0 THEN 0 - x ELSE x

(***************************************************************************)
(* JSON values of the launch-site file: a number, or something else (a      *)
(* string, null) on which math.radians raises TypeError.                    *)
(***************************************************************************)
Num(n) == [t |-> "num", v |-> n]
NotNum == [t |-> "str", v |-> 0]

(***************************************************************************)
(* utils.position_info(listener, balloon): listener is the site tuple       *)
(* (lat, lon, 0) as read from JSON, balloon the fix tuple of floats.        *)
(* radians() raises on a coordinate that is no number.  On one meridian     *)
(* d_lon = 0, sa = 0, and angle_at_centre = |lat2 - lat1|.                  *)
(***************************************************************************)
position_info(listener, balloon) ==
    IF \E k \in 1..2 : listener[k].t # "num"
    THEN [raised |-> TRUE, great_circle_distance |-> 0]
    ELSE [raised |-> FALSE,
          great_circle_distance |-> Abs(balloon[1] - listener[1].v) * GridMetres]

(***************************************************************************)
(* bin_launch_data, line 64: the altitude gate.                             *)
(***************************************************************************)
AltGateMutant(alt, alt_lim) == alt >= alt_lim
AltGate(alt, alt_lim) == alt > alt_lim

(***************************************************************************)
(* bin_launch_data, line 81: a site is eligible.                            *)
(***************************************************************************)
EligibleMutant(dist_km, rad) == (dist_km >= 0) /\ (dist_km < rad)
Eligible(dist_km, rad) == (dist_km > 0) /\ (dist_km < rad)

(***************************************************************************)
(* bin_launch_data, line 82: the site replaces the best one so far.         *)
(***************************************************************************)
CloserMutant(dist_km, best) == dist_km <= best
Closer(dist_km, best) == dist_km < best

(***************************************************************************)
(* The names bound when the except clause of bin_launch_data (line 76)      *)
(* builds its message: the function's locals, and the module's globals at   *)
(* the time of the call from the main loop.  An f-string that reads any     *)
(* other name raises NameError.                                             *)
(***************************************************************************)
BinLocals == {"telemetry", "sites", "radius", "alt_limit", "_sonde",
              "min_dist", "min_site", "_site", "_site_loc"}
ModuleGlobals == {"BUCKET", "ALLOWED_TYPE_CHANGES", "bin_launch_data",
                  "upload_summary_to_s3", "upload_queue",
                  "uploader_threads_running", "uploader_thread",
                  "parser", "args", "_log_level", "sites", "_threads",
                  "NUM_THREADS", "x", "_thread", "file_list", "binned_data",
                  "file_count", "unknown_sondes", "already_allocated",
                  "count", "_file", "_summary", "_first", "_burst", "_last",
                  "_serial", "_site_bin", "_site_range"}
\* the names the message of line 76 reads
ErrorMessageNames == {"_site", "_telemetry", "_site_loc", "_sonde"}

(***************************************************************************)
(* One iteration of the loop of bin_launch_data (lines 70-84) on site s,    *)
(* from the loop state st = [min_dist, min_site, status, report].           *)
(* status: "scan" (the loop goes on), "exit1" (sys.exit(1) after the error  *)
(* was logged), "NameError" (the except clause itself raised).              *)
(***************************************************************************)
BinVisit(st, s, sonde, serial, rad) ==
    LET site_loc == <<s.lat, s.lon, Num(0)>>
        pos_info == position_info(site_loc, sonde)
        dist_km  == pos_info.great_circle_distance \div 1000
    IN  IF pos_info.raised
        THEN IF ErrorMessageNames \subseteq (BinLocals \cup ModuleGlobals)
             THEN [st EXCEPT !.status = "exit1",
                             !.report = [kind |-> "logged", site |-> s.station,
                                         serial |-> serial, sonde |-> sonde]]
             ELSE [st EXCEPT !.status = "NameError",
                             !.report = [kind |-> "traceback", site |-> None,
                                         serial |-> None, sonde |-> <<>>]]
        ELSE IF Eligible(dist_km, rad) /\ Closer(dist_km, st.min_dist)
             THEN [st EXCEPT !.min_dist = dist_km, !.min_site = s.station]
             ELSE st

NoReport == [kind |-> "none", site |-> None, serial |-> None, sonde |-> <<>>]
BinStart == [min_dist |-> NoDist, min_site |-> None, status |-> "scan",
             report |-> NoReport]

(***************************************************************************)
(* The inputs of the binning specification.                                 *)
(***************************************************************************)
StationIds == <<"94672", "94866", "94767", "94610", "94120", "94294">>
\* --radius and --alt: the defaults, and a smaller radius
DefaultRadius == 30
DefaultAltLimit == 5000
Radii == {DefaultRadius - 10, DefaultRadius}
Alts == {DefaultAltLimit - 1, DefaultAltLimit, DefaultAltLimit + 1}
Lats == 0..MaxLat
SiteLats == {Num(l) : l \in Lats} \cup {NotNum}
\* launch-site indexes of n sites: load_launch_sites keys them by station
SiteIndexes(n) ==
    {[i \in 1..n |-> [station |-> StationIds[i], lat |-> f[i], lon |-> Num(0)]] :
        f \in [1..n -> SiteLats]}
Fixes == [lat : Lats, lon : {0}, alt : Alts, serial : {"S1"}]

BinIdle == /\ telemetry = [lat |-> 0, lon |-> 0, alt |-> 0, serial |-> "S1"]
           /\ bin_pc = "idle" /\ site_idx = 1 /\ scan = BinStart
           /\ bin_ret = <<None, NoDist>> /\ evaluated = <<>>
\* no launch sites are loaded
ConfIdle == sites = <<>> /\ radius = DefaultRadius /\ alt_limit = DefaultAltLimit

BinInit ==
    /\ telemetry \in Fixes
    /\ \E n \in 0..MaxSites : sites \in SiteIndexes(n)
    /\ radius \in Radii
    /\ alt_limit = DefaultAltLimit
    /\ bin_pc = "call"
    /\ site_idx = 1
    /\ scan = BinStart
    /\ bin_ret = <<None, NoDist>>
    /\ evaluated = <<>>
    /\ DensIdle
    /\ AvgIdle
    /\ MainIdle

\* line 62
Sonde(t) == <<t.lat, t.lon, t.alt>>

\* lines 62-68: the gate, then the loop's initial state
BinEnter ==
    /\ bin_pc = "call"
    /\ IF AltGate(Sonde(telemetry)[3], alt_limit)
       THEN /\ bin_pc' = "returned"
            /\ bin_ret' = <<None, NoDist>>
       ELSE /\ bin_pc' = "scan"
            /\ bin_ret' = bin_ret
    /\ scan' = BinStart
    /\ site_idx' = 1
    /\ UNCHANGED <<telemetry, confVars, evaluated>>
    /\ UNCHANGED notBin

\* lines 70-84: one iteration of the for loop
BinIter ==
    /\ bin_pc = "scan"
    /\ site_idx <= Len(sites)
    /\ scan' = BinVisit(scan, sites[site_idx], Sonde(telemetry),
                        telemetry.serial, radius)
    /\ evaluated' = Append(evaluated, sites[site_idx].station)
    /\ bin_pc' = scan'.status
    /\ site_idx' = site_idx + 1
    /\ UNCHANGED <<telemetry, confVars, bin_ret>>
    /\ UNCHANGED notBin

\* line 87
BinReturn ==
    /\ bin_pc = "scan"
    /\ site_idx > Len(sites)
    /\ bin_pc' = "returned"
    /\ bin_ret' = <<scan.min_site, scan.min_dist>>
    /\ UNCHANGED <<telemetry, confVars, site_idx, scan, evaluated>>
    /\ UNCHANGED notBin

BinNext == BinEnter \/ BinIter \/ BinReturn

SpecBin == BinInit /\ [][BinNext]_vars

(***************************************************************************)
(* utils.getDensity.  Fixed point: temperatures in 0.1 mK, relative         *)
(* pressures in 1e-9, the density in mg/m3.                                 *)
(***************************************************************************)
\* a Python list read at index i (0-based); the caller checks the range
At(list, i) == list[i + 1]
InRange(list, i) == i >= 0 /\ i < Len(list)

altitudes == <<0, 11000, 20000, 32000, 47000, 51000, 71000, 84852>>
\* temperatures [K] * 10000
temperatures == <<2881500, 2166500, 2166500, 2286500, 2706500, 2706500,
                  2146500, 1869460>>
\* tempGrads [K/km] * 10, which is the gradient in 0.1 mK per metre
tempGrads == <<-65, 0, 10, 28, 0, -28, -20, 0>>
\* temperatureSL [K] * 10000
temperatureSL == 288 * 10000 + 1500
\* densitySL [kg/m3] * 1000
densitySL == 1000 + 225

\* lines 151-153: pressureRelBase * math.exp(-1 * gMR * deltaAltitude / 1000.0
\* / baseTemp), in 1e-9, as CPython evaluates it on the altitudes of the model
ExpPressureRel(i, deltaAltitude) ==
    CASE
         i = 1 /\ deltaAltitude = 1 -> 223325886
      [] i = 1 /\ deltaAltitude = 999 -> 190806351
      [] i = 1 /\ deltaAltitude = 4000 -> 118870672
      [] i = 1 /\ deltaAltitude = 8999 -> 54041471
      [] i = 1 /\ deltaAltitude = 9000 -> 54032950
      [] i = 4 /\ deltaAltitude = 1 -> 1094422
      [] i = 4 /\ deltaAltitude = 2000 -> 850356
      [] i = 4 /\ deltaAltitude = 3999 -> 660719
      [] i = 4 /\ deltaAltitude = 4000 -> 660635

\* lines 155-157: pressureRelBase * math.pow(baseTemp / temperature,
\* gMR / tempGrad / 1000.0), in 1e-9, as CPython evaluates it on the
\* altitudes of the model
PowPressureRel(i, deltaAltitude) ==
    CASE
         i = 0 /\ deltaAltitude = -100 -> 1011913096
      [] i = 0 /\ deltaAltitude = 0 -> 1000000000
      [] i = 0 /\ deltaAltitude = 1 -> 999881445
      [] i = 0 /\ deltaAltitude = 100 -> 988200726
      [] i = 0 /\ deltaAltitude = 5000 -> 533135081
      [] i = 0 /\ deltaAltitude = 10999 -> 223396329
      [] i = 0 /\ deltaAltitude = 11000 -> 223361105
      [] i = 2 /\ deltaAltitude = 1 -> 54024430
      [] i = 2 /\ deltaAltitude = 6000 -> 21249383
      [] i = 2 /\ deltaAltitude = 11999 -> 8567958
      [] i = 2 /\ deltaAltitude = 12000 -> 8566678
      [] i = 3 /\ deltaAltitude = 1 -> 8565398
      [] i = 3 /\ deltaAltitude = 8000 -> 2738925
      [] i = 3 /\ deltaAltitude = 14999 -> 1094698
      [] i = 3 /\ deltaAltitude = 15000 -> 1094560
      [] i = 5 /\ deltaAltitude = 1 -> 660552
      [] i = 5 /\ deltaAltitude = 9000 -> 200486
      [] i = 5 /\ deltaAltitude = 19999 -> 39053
      [] i = 5 /\ deltaAltitude = 20000 -> 39047
      [] i = 6 /\ deltaAltitude = 1 -> 39041
      [] i = 6 /\ deltaAltitude = 9000 -> 8747
      [] i = 6 /\ deltaAltitude = 13851 -> 3686
      [] i = 6 /\ deltaAltitude = 13852 -> 3685

\* a (in 1e-9) times q (in 1e-4), in 1e-9, within 32 bits
MulE4(a, q) == (a \div 100000) * q * 10 + ((a % 100000) * q) \div 10000

\* lines 137-140, one evaluation of the while condition from the local i:
\* "IndexError" when altitudes[i + 1] is outside the list, else whether the
\* loop body runs
WhileTest(alt, i) ==
    IF ~InRange(altitudes, i + 1) THEN "IndexError"
    ELSE IF alt > At(altitudes, i + 1) THEN "body" ELSE "exit"

\* lines 143-167: the density of layer i at the altitude
LayerDensity(alt, i) ==
    LET baseTemp      == At(temperatures, i)
        tempGrad      == At(tempGrads, i)
        deltaAltitude == alt - At(altitudes, i)
        temperature   == baseTemp + tempGrad * deltaAltitude
        pressureRel   == IF tempGrad = 0
                         THEN ExpPressureRel(i, deltaAltitude)
                         ELSE PowPressureRel(i, deltaAltitude)
        tempRatio     == (temperatureSL * 100) \div (temperature \div 100)
    IN  ((MulE4(pressureRel, tempRatio) \div 1000) * densitySL) \div 1000

\* the layer the whole loop of lines 137-140 ends in, or -1 for IndexError
RECURSIVE PickRegion(_, _)
PickRegion(alt, i) ==
    LET t == WhileTest(alt, i)
    IN  IF t = "IndexError" THEN 0 - 1
        ELSE IF t = "body" THEN PickRegion(alt, i + 1) ELSE i

\* getDensity as a function: [raised, density]
getDensity(alt) ==
    LET i == IF alt > 0 THEN PickRegion(alt, 0) ELSE 0
    IN  IF i < 0 THEN [raised |-> TRUE, density |-> 0]
        ELSE [raised |-> FALSE, density |-> LayerDensity(alt, i)]

\* the altitudes getDensity is called with
DensityAltitudes ==
    {0 - 100, 0, 1, 100, 5000, 10999, 11999, 15000, 26000, 40000, 49000,
     60000, 80000, 100000}
    \cup {At(altitudes, k) + d : k \in 1..7, d \in {0 - 1, 0, 1}}

DensInit ==
    /\ altitude \in DensityAltitudes
    /\ layer = 0
    /\ dens_pc = "start"
    /\ density = 0
    /\ ConfIdle
    /\ BinIdle
    /\ AvgIdle
    /\ MainIdle

\* lines 137-138
DensEnter ==
    /\ dens_pc = "start"
    /\ layer' = 0
    /\ dens_pc' = IF altitude > 0 THEN "while" ELSE "lookup"
    /\ UNCHANGED <<altitude, density>>
    /\ UNCHANGED notDens

\* lines 139-140: the while condition and, when it holds, the body
DensWhile ==
    /\ dens_pc = "while"
    /\ LET t == WhileTest(altitude, layer)
       IN  /\ layer' = IF t = "body" THEN layer + 1 ELSE layer
           /\ dens_pc' = IF t = "IndexError" THEN "IndexError"
                         ELSE IF t = "body" THEN "while" ELSE "lookup"
    /\ UNCHANGED <<altitude, density>>
    /\ UNCHANGED notDens

\* lines 143-167
DensLookup ==
    /\ dens_pc = "lookup"
    /\ density' = LayerDensity(altitude, layer)
    /\ dens_pc' = "done"
    /\ UNCHANGED <<altitude, layer>>
    /\ UNCHANGED notDens

DensNext == DensEnter \/ DensWhile \/ DensLookup

SpecDensity == DensInit /\ [][DensNext]_vars

(***************************************************************************)
(* utils.seaLevelDescentRate and utils.calculate_averages.  Altitudes in m, *)
(* vertical rates in m/s, normalised rates and their statistics in mm/s,    *)
(* burst statistics in m.                                                   *)
(***************************************************************************)
\* math.sqrt, rounded down: the r with r*r <= x < (r+1)*(r+1)
RECURSIVE SqrtBetween(_, _, _)
SqrtBetween(x, lo, hi) ==
    IF hi - lo <= 1 THEN lo
    ELSE LET mid == (lo + hi) \div 2
         IN  IF mid * mid <= x THEN SqrtBetween(x, mid, hi)
             ELSE SqrtBetween(x, lo, mid)
Sqrt(x) == SqrtBetween(x, 0, 46341)

\* lines 173-174: sqrt((rho / 1.225) * descent_rate^2), in mm/s
seaLevelDescentRate(descent_rate, alt) ==
    LET rho == getDensity(alt)
    IN  IF rho.raised THEN [raised |-> TRUE, rate |-> 0]
        ELSE [raised |-> FALSE,
              rate |-> Sqrt(((rho.density * 1000) \div densitySL)
                            * descent_rate * descent_rate)]

RECURSIVE Sum(_)
Sum(xs) == IF xs = <<>> THEN 0 ELSE Head(xs) + Sum(Tail(xs))
\* np.mean and np.std of a non-empty list, rounded down to the unit of the list
Mean(xs) == Sum(xs) \div Len(xs)
Std(xs) ==
    LET m == Mean(xs)
    IN  Sqrt(Sum([k \in 1..Len(xs) |-> (xs[k] - m) * (xs[k] - m)]) \div Len(xs))

\* the defaults of line 215
MinCount == 5
DescentMaxAlt == 12000
\* -999.0 m/s of lines 269-270, in mm/s
Sentinel == (0 - 999) * 1000

\* line 235
TrueBurstMutant(first_alt, burst_alt, last_alt) == burst_alt > first_alt
TrueBurst(first_alt, burst_alt, last_alt) ==
    (burst_alt > first_alt) /\ (burst_alt > last_alt)

\* lines 238-240
IsDescentMutant(last, burst_alt, descent_max_alt) ==
    /\ last.alt < burst_alt
    /\ "vel_v" \in DOMAIN last
    /\ last.vel_v <= 0 /\ last.alt < descent_max_alt
IsDescent(last, burst_alt, descent_max_alt) ==
    /\ last.alt < burst_alt
    /\ "vel_v" \in DOMAIN last
    /\ last.vel_v < 0 /\ last.alt < descent_max_alt

\* line 241: the sample appended to descents
DescentSampleMutant(last) == [raised |-> FALSE, rate |-> Abs(last.vel_v) * 1000]
DescentSample(last) == seaLevelDescentRate(last.vel_v, last.alt)

\* 'Sondehub' in _type, on the type strings of the model
ContainsSondehub(type) == type \in {"Sondehub", "SondehubV1"}

\* lines 225-253: the loop body on one flight, from the accumulators
\* acc = [bursts, descents, types, raised]
AverageVisit(acc, summary, descent_max_alt) ==
    LET first == summary[1]
        burst == summary[2]
        last  == summary[3]
        a1 == IF TrueBurst(first.alt, burst.alt, last.alt)
              THEN [acc EXCEPT !.bursts = Append(@, burst.alt)] ELSE acc
        d  == IsDescent(last, burst.alt, descent_max_alt)
        sample == IF d THEN DescentSample(last) ELSE [raised |-> FALSE, rate |-> 0]
        a2 == IF d /\ ~sample.raised
              THEN [a1 EXCEPT !.descents = Append(@, sample.rate)] ELSE a1
        type == IF "subtype" \in DOMAIN last THEN last.subtype ELSE last.type
        a3 == IF ContainsSondehub(type) THEN a2
              ELSE IF type \in DOMAIN a2.types
                   THEN [a2 EXCEPT !.types[type] = @ + 1]
                   ELSE [a2 EXCEPT !.types = @ @@ (type :> 1)]
    IN  IF d /\ sample.raised THEN [a1 EXCEPT !.raised = TRUE] ELSE a3

RECURSIVE AverageLoop(_, _, _, _)
AverageLoop(acc, data, k, descent_max_alt) ==
    IF k > Len(data) \/ acc.raised THEN acc
    ELSE AverageLoop(AverageVisit(acc, data[k], descent_max_alt), data, k + 1,
                     descent_max_alt)

\* lines 215-272
calculate_averages(data, min_count, descent_max_alt) ==
    LET acc == AverageLoop([bursts |-> <<>>, descents |-> <<>>, types |-> <<>>,
                            raised |-> FALSE], data, 1, descent_max_alt)
        enough == Len(acc.descents) >= min_count
    IN  IF acc.raised THEN [is_none |-> FALSE, raised |-> TRUE]
        ELSE IF Len(acc.bursts) >= min_count
        THEN [is_none |-> FALSE, raised |-> FALSE,
              type |-> acc.types,
              burst_count |-> Len(acc.bursts),
              descent_count |-> Len(acc.descents),
              burst_mean |-> Mean(acc.bursts),
              burst_std |-> Std(acc.bursts),
              descent_mean |-> IF enough THEN Mean(acc.descents) ELSE Sentinel,
              descent_std |-> IF enough THEN Std(acc.descents) ELSE Sentinel]
        ELSE AvgNone

\* the three fixes of a flight: first, burst, last
Point(alt, type) == [alt |-> alt, type |-> type]
FlightKinds == <<
    \* a true burst and a descent sample
    <<Point(400, "RS41"), Point(28000, "RS41"),
      [alt |-> 100, type |-> "RS41", vel_v |-> 0 - 6]>>,
    \* a true burst, no vel_v in the last fix
    <<Point(400, "RS41"), Point(30000, "RS41"),
      [alt |-> 100, type |-> "RS41", subtype |-> "RS41-SGP"]>>,
    \* burst = first: no true burst, but a descent sample
    <<Point(28000, "DFM"), Point(28000, "DFM"),
      [alt |-> 5000, type |-> "DFM", vel_v |-> 0 - 10]>>,
    \* a true burst, the last fix at the descent ceiling
    <<Point(400, "RS41"), Point(28000, "RS41"),
      [alt |-> 12000, type |-> "RS41", vel_v |-> 0 - 6]>>,
    \* burst = last: neither
    <<Point(400, "SondehubV1"), Point(28000, "SondehubV1"),
      [alt |-> 28000, type |-> "SondehubV1", vel_v |-> 0 - 6]>>,
    \* a true burst, vel_v = 0
    <<Point(400, "M10"), Point(30000, "M10"),
      [alt |-> 100, type |-> "M10", vel_v |-> 0]>> >>

AvgInit ==
    /\ \E n \in 0..MaxFlights :
          \E f \in [1..n -> 1..Len(FlightKinds)] :
              serial_data = [k \in 1..n |-> FlightKinds[f[k]]]
    /\ avg_pc = "call"
    /\ avgs = AvgNone
    /\ ConfIdle
    /\ BinIdle
    /\ DensIdle
    /\ MainIdle

AvgCall ==
    /\ avg_pc = "call"
    /\ avgs' = calculate_averages(serial_data, MinCount, DescentMaxAlt)
    /\ avg_pc' = "done"
    /\ UNCHANGED serial_data
    /\ UNCHANGED notAvg

AvgNext == AvgCall

SpecAvg == AvgInit /\ [][AvgNext]_vars

(***************************************************************************)
(* The program of bin_sonde_summaries.py: the main thread (lines 172-363)   *)
(* and the uploader threads (lines 90-168).                                 *)
(***************************************************************************)
\* Python dicts with string keys are records; d[k] = v adds or replaces a key
SetKey(d, k, v) == (k :> v) @@ d

\* ---- utils.load_summary_file (lines 182-196) on the content of a file.
\* A content is [parses, has_len, len, records, data]: whether json.loads
\* accepts it, whether len() is defined on the value (it is not on a number
\* or null), its length, whether it is a list of records, and the list.
load_summary_fileMutant(content) ==
    IF ~content.parses THEN [is_none |-> TRUE]
    ELSE IF ~content.has_len THEN [is_none |-> TRUE]
    ELSE [is_none |-> FALSE, records |-> content.records, data |-> content.data]
load_summary_file(content) ==
    IF ~content.parses THEN [is_none |-> TRUE]
    ELSE IF ~content.has_len THEN [is_none |-> TRUE]
    ELSE IF content.len # 3 THEN [is_none |-> TRUE]
    ELSE [is_none |-> FALSE, records |-> content.records, data |-> content.data]

\* ---- bin_launch_data (lines 60-87) as one call
RECURSIVE BinScan(_, _, _, _, _, _)
BinScan(st, index, k, sonde, serial, rad) ==
    IF k > Len(index) \/ st.status # "scan" THEN st
    ELSE BinScan(BinVisit(st, index[k], sonde, serial, rad), index, k + 1,
                 sonde, serial, rad)
bin_launch_data(t, index, rad, alt_lim) ==
    IF AltGate(Sonde(t)[3], alt_lim)
    THEN [status |-> "returned", ret |-> <<None, NoDist>>, report |-> NoReport]
    ELSE LET st == BinScan(BinStart, index, 1, Sonde(t), t.serial, rad)
         IN  IF st.status = "scan"
             THEN [status |-> "returned", ret |-> <<st.min_site, st.min_dist>>,
                   report |-> NoReport]
             ELSE [status |-> st.status, ret |-> <<None, NoDist>>,
                   report |-> st.report]

\* ---- ALLOWED_TYPE_CHANGES (lines 27-58)
ALLOWED_TYPE_CHANGES ==
    [k \in {"RS41", "RS41-Ozone", "RS41-SGP-Ozone", "RS41-SG", "RS41-SG-Ozone",
            "RS41-SGP", "RS41-SGM", "RS41-NG"} |-> "RS41"]
    @@ [k \in {"RS92", "RS92-Ozone"} |-> "RS92"]
    @@ [k \in {"IMET", "iMet"} |-> "iMet-4"]
    @@ [k \in {"DFM", "DFM06", "DFM09", "DFMxB", "DFMxC", "DFMx7", "DFMx9",
               "DFM17", "DFM09P"} |-> "DFM"]
    @@ ("MK2LMS" :> "LMS6-1680") @@ ("LMS6" :> "LMS6-403")
    @@ [k \in {"M10", ",M10", "M10-Ptu"} |-> "M10"]
    @@ ("M20" :> "M20")
    @@ [k \in {"MEISEI", "IMS100"} |-> "IMS100"]
    @@ ("IMET5" :> "iMet-5x")

\* x["comment"].split(" ")[0]: a comment is the list of its pieces between
\* single spaces; the empty comment splits into one empty piece
FirstWord(comment) == IF comment = <<>> THEN "" ELSE comment[1]
\* x['datetime'].split("T")[0].replace("-", "/"): a datetime is <<date, time>>
\* and a date <<year, month, day>>; the path spells the same three numbers
DateOf(datetime) == datetime[1]

\* ---- upload_summary_to_s3, lines 97-112
Metadata(summary) ==
    [first |-> <<summary[1].lat, summary[1].lon, summary[1].alt>>,
     max   |-> <<summary[2].lat, summary[2].lon, summary[2].alt>>,
     last  |-> <<summary[3].lat, summary[3].lon, summary[3].alt>>,
     launch_site |-> summary[1].launch_site]

\* lines 116-133 on point x: [discard, x], the point with its type rewritten
CleanTypeMutant(x) ==
    IF x.type = "payload_telemetry"
    THEN LET type == FirstWord(x.comment)
         IN  IF type \notin DOMAIN ALLOWED_TYPE_CHANGES
             THEN [discard |-> FALSE, x |-> x]
             ELSE [discard |-> FALSE,
                   x |-> [x EXCEPT !.type = ALLOWED_TYPE_CHANGES[type]]]
    ELSE [discard |-> FALSE, x |-> x]
CleanType(x) ==
    IF x.type = "payload_telemetry"
    THEN LET type == FirstWord(x.comment)
         IN  IF type \notin DOMAIN ALLOWED_TYPE_CHANGES
             THEN [discard |-> TRUE, x |-> x]
             ELSE [discard |-> FALSE,
                   x |-> [x EXCEPT !.type = ALLOWED_TYPE_CHANGES[type]]]
    ELSE [discard |-> FALSE, x |-> x]

\* lines 138-153: the two objects put for each date
Puts(summary, serial, launch_site, dates, metadata) ==
    UNION {{[path |-> <<"date", dates[k], serial>>, body |-> summary,
             metadata |-> metadata],
            [path |-> <<"launchsites", launch_site, dates[k], serial>>,
             body |-> summary, metadata |-> metadata]} : k \in 1..Len(dates)}

\* ---- the post-analysis, lines 314-330: the site record after _avgs
\* int(x) of a mean in m; round(x, 1) of a rate in mm/s
Round1(x) == ((x + 50) \div 100) * 100
\* line 326
DescentAvailableMutant(a) == a.descent_count >= 5
DescentAvailable(a) == a.descent_count > 5
PostUpdate(site, a) ==
    IF a.is_none THEN site
    ELSE LET s1 == SetKey(SetKey(SetKey(site, "burst_altitude", a.burst_mean),
                                 "burst_samples", a.burst_count),
                          "burst_std", a.burst_std)
         IN  IF DescentAvailable(a)
             THEN SetKey(SetKey(SetKey(s1, "descent_rate", Round1(a.descent_mean)),
                                "descent_samples", a.descent_count),
                         "descent_std", Round1(a.descent_std))
             ELSE s1

\* the position of a station in the index (sites[_site]); 0 when absent
SiteAt(index, station) ==
    IF \E k \in 1..Len(index) : index[k].station = station
    THEN CHOOSE k \in 1..Len(index) : index[k].station = station
    ELSE 0
BinAt(binned, station) ==
    IF \E k \in 1..Len(binned) : binned[k].site = station
    THEN CHOOSE k \in 1..Len(binned) : binned[k].site = station
    ELSE 0
\* d[key] = val on a dict kept as the list of its <<key, value>> items
DictSet(d, key, val) ==
    IF \E k \in 1..Len(d) : d[k][1] = key
    THEN [k \in 1..Len(d) |-> IF d[k][1] = key THEN <<key, val>> ELSE d[k]]
    ELSE Append(d, <<key, val>>)

\* lines 252-256
BinnedAdd(binned, station, serial, ref) ==
    LET b == IF BinAt(binned, station) = 0
             THEN Append(binned, [site |-> station, serials |-> <<>>,
                                  serial_data |-> <<>>])
             ELSE binned
        k == BinAt(b, station)
    IN  [b EXCEPT ![k].serials = Append(@, serial),
                  ![k].serial_data = DictSet(@, serial, ref)]

\* lines 259-264
AnnotateMutant(summary, station, range_km) ==
    [k \in 1..3 |-> IF k = 3 THEN summary[k]
                    ELSE SetKey(SetKey(summary[k], "launch_site", station),
                                "launch_site_range_estimate", range_km * 1000)]
Annotate(summary, station, range_km) ==
    [k \in 1..3 |-> SetKey(SetKey(summary[k], "launch_site", station),
                           "launch_site_range_estimate", range_km * 1000)]

\* json.dumps(binned_data), line 284: what the objects hold at that moment
Dump(binned, heap, index) ==
    [written |-> TRUE,
     data |-> [k \in 1..Len(binned) |->
                [site |-> index[SiteAt(index, binned[k].site)],
                 serials |-> binned[k].serials,
                 serial_data |->
                     [j \in 1..Len(binned[k].serial_data) |->
                         <<binned[k].serial_data[j][1],
                           heap[binned[k].serial_data[j][2]]>>]]]]

(***************************************************************************)
(* The inputs of the program.                                               *)
(***************************************************************************)
SerialIds == <<"S1", "S2", "S3", "S4", "S5", "S6", "S7", "S8">>
Day1 == <<2021, 3, 1>>
Day2 == <<2021, 3, 2>>
Fix(serial, date, lat, alt, type) ==
    [serial |-> serial, datetime |-> <<date, "00:00:00Z">>, lat |-> lat,
     lon |-> 0, alt |-> alt, type |-> type]
\* a flight launched 10 km from the first site, V2 types
PlainSummary(serial) ==
    <<Fix(serial, Day1, 1, 400, "RS41"), Fix(serial, Day1, 2, 28000, "RS41"),
      SetKey(Fix(serial, Day1, 3, 100, "RS41"), "vel_v", 0 - 6)>>
\* a V1 flight launched 10 km from the second site and landed the next day,
\* every comment starting with a known type
LegacySummary(serial) ==
    <<SetKey(Fix(serial, Day1, 3, 400, "payload_telemetry"),
             "comment", <<"RS41-SGP", "3.1V">>),
      SetKey(Fix(serial, Day1, 3, 30000, "payload_telemetry"),
             "comment", <<"IMET">>),
      SetKey(Fix(serial, Day2, 2, 100, "payload_telemetry"),
             "comment", <<"RS41-SGP", "2.9V">>)>>
\* a V1 flight launched 10 km from the first site whose second comment
\* starts with no known type
MixedSummary(serial) ==
    <<SetKey(Fix(serial, Day1, 1, 400, "payload_telemetry"),
             "comment", <<"DFM09", "x">>),
      SetKey(Fix(serial, Day1, 1, 28000, "payload_telemetry"),
             "comment", <<"Unknown", "x">>),
      SetKey(Fix(serial, Day1, 1, 100, "payload_telemetry"),
             "comment", <<"DFM09", "x">>)>>
\* a flight that already has a launch site
AllocatedSummary(serial) ==
    [k \in 1..3 |-> SetKey(PlainSummary(serial)[k], "launch_site", "94672")]
\* a flight first seen above the altitude limit
HighSummary(serial) ==
    [PlainSummary(serial) EXCEPT ![1].alt = DefaultAltLimit + 1]

Garbage == [parses |-> FALSE, has_len |-> FALSE, len |-> 0, records |-> FALSE,
            data |-> <<>>]
Scalar == [parses |-> TRUE, has_len |-> FALSE, len |-> 0, records |-> FALSE,
           data |-> <<>>]
\* a list of two records
Short(serial) == [parses |-> TRUE, has_len |-> TRUE, len |-> 2, records |-> TRUE,
                  data |-> SubSeq(PlainSummary(serial), 1, 2)]
\* a JSON object of three keys, or a list of three numbers
ThreeOther == [parses |-> TRUE, has_len |-> TRUE, len |-> 3, records |-> FALSE,
               data |-> <<>>]
Valid(summary) == [parses |-> TRUE, has_len |-> TRUE, len |-> 3,
                   records |-> TRUE, data |-> summary]
FileContents(serial) ==
    {Garbage, Scalar, Short(serial), ThreeOther}
    \cup {Valid(PlainSummary(serial)), Valid(LegacySummary(serial)),
          Valid(MixedSummary(serial)), Valid(AllocatedSummary(serial)),
          Valid(HighSummary(serial))}

\* the lists of n files; the k-th file is the flight of the k-th serial
RECURSIVE FileLists(_)
FileLists(n) ==
    IF n = 0 THEN {<<>>}
    ELSE {Append(l, c) : l \in FileLists(n - 1), c \in FileContents(SerialIds[n])}

Site(station, name, lat) ==
    [station |-> station, station_name |-> name, lat |-> lat, lon |-> Num(0)]
LaunchSites == <<Site("94672", "Adelaide", Num(0)), Site("94866", "Melbourne", Num(4))>>
\* the same file with a latitude that is no number
BadLaunchSites == [LaunchSites EXCEPT ![2].lat = NotNum]

NewThread == [pc |-> "new", data |-> 0, i |-> 0, dates |-> <<>>,
              metadata |-> <<>>]

MainInit ==
    /\ args \in [s3_upload : BOOLEAN, postanalysis : {TRUE},
                 updatesites : {TRUE}, binnedinput : {FALSE}]
    /\ \E n \in 0..MaxFiles : file_list \in FileLists(n)
    /\ sites \in {LaunchSites, BadLaunchSites}
    /\ radius = DefaultRadius
    /\ alt_limit = DefaultAltLimit
    /\ objs = <<>>
    /\ main_pc = "start"
    /\ file_idx = 1
    /\ binned_data = <<>>
    /\ counters = NoCounters
    /\ upload_queue = <<>>
    /\ uploader_threads_running = TRUE
    /\ threads = [w \in 1..NumThreads |-> NewThread]
    /\ store = {}
    /\ binned_file = Unwritten
    /\ sites_file = Unwritten
    /\ post_idx = 1
    /\ post_avgs = <<>>
    /\ qsize_seen = <<>>
    /\ main_error = "none"
    /\ BinIdle
    /\ DensIdle
    /\ AvgIdle

(***************************************************************************)
(* The main thread.                                                         *)
(***************************************************************************)
\* lines 203-213: the uploader threads are started
MainStart ==
    /\ main_pc = "start"
    /\ threads' = IF args.s3_upload
                  THEN [w \in DOMAIN threads |-> [threads[w] EXCEPT !.pc = "get"]]
                  ELSE threads
    /\ main_pc' = IF ~args.binnedinput THEN "loop"
                  ELSE IF args.s3_upload THEN "spin" ELSE "load"
    /\ UNCHANGED <<args, file_list, objs, file_idx, binned_data, counters,
                   upload_queue, uploader_threads_running, store, binned_file,
                   sites_file, post_idx, post_avgs, qsize_seen, main_error>>
    /\ UNCHANGED <<confVars, notMain>>

\* lines 232-264 and 272-277: one file, up to the upload_queue.put
MainFile ==
    /\ main_pc = "loop"
    /\ file_idx <= Len(file_list)
    /\ LET loaded  == load_summary_file(file_list[file_idx])
           summary == loaded.data
           bin     == bin_launch_data(summary[1], sites, radius, alt_limit)
           station == bin.ret[1]
       IN  IF loaded.is_none
           THEN \* line 235
                /\ file_idx' = file_idx + 1
                /\ UNCHANGED <<objs, main_pc, binned_data, counters, main_error>>
           ELSE IF ~loaded.records
           THEN \* line 237: _summary[0] raises KeyError or TypeError
                /\ main_pc' = "crashed"
                /\ main_error' = "KeyError"
                /\ UNCHANGED <<objs, file_idx, binned_data, counters>>
           ELSE IF "launch_site" \in DOMAIN summary[1]
           THEN \* lines 242-245
                /\ counters' = [counters EXCEPT !.already_allocated = @ + 1]
                /\ file_idx' = file_idx + 1
                /\ objs' = (file_idx :> summary) @@ objs
                /\ UNCHANGED <<main_pc, binned_data, main_error>>
           ELSE IF bin.status # "returned"
           THEN \* line 247: bin_launch_data did not return
                /\ main_pc' = IF bin.status = "exit1" THEN "exit1" ELSE "crashed"
                /\ main_error' = bin.status
                /\ objs' = (file_idx :> summary) @@ objs
                /\ UNCHANGED <<file_idx, binned_data, counters>>
           ELSE IF station # None
           THEN \* lines 249-264
                /\ binned_data' = BinnedAdd(binned_data, station,
                                            summary[1].serial, file_idx)
                /\ objs' = (file_idx :> Annotate(summary, station, bin.ret[2]))
                           @@ objs
                /\ IF args.s3_upload
                   THEN /\ main_pc' = "put"
                        /\ UNCHANGED <<file_idx, counters>>
                   ELSE /\ file_idx' = file_idx + 1
                        /\ counters' = [counters EXCEPT !.count = @ + 1]
                        /\ UNCHANGED main_pc
                /\ UNCHANGED main_error
           ELSE \* lines 272-277
                /\ counters' = [counters EXCEPT !.unknown_sondes = @ + 1,
                                                !.count = @ + 1]
                /\ file_idx' = file_idx + 1
                /\ objs' = (file_idx :> summary) @@ objs
                /\ UNCHANGED <<main_pc, binned_data, main_error>>
    /\ UNCHANGED <<args, file_list, upload_queue, uploader_threads_running,
                   threads, store, binned_file, sites_file, post_idx,
                   post_avgs, qsize_seen>>
    /\ UNCHANGED <<confVars, notMain>>

\* lines 267-269 and 277
MainPut ==
    /\ main_pc = "put"
    /\ upload_queue' = Append(upload_queue, file_idx)
    /\ counters' = [counters EXCEPT !.count = @ + 1]
    /\ file_idx' = file_idx + 1
    /\ main_pc' = "loop"
    /\ UNCHANGED <<args, file_list, objs, binned_data,
                   uploader_threads_running, threads, store, binned_file,
                   sites_file, post_idx, post_avgs, qsize_seen, main_error>>
    /\ UNCHANGED <<confVars, notMain>>

\* lines 281-292 and 305-312: the binned data is written
MainWrite ==
    /\ main_pc = "loop"
    /\ file_idx > Len(file_list)
    /\ binned_file' = Dump(binned_data, objs, sites)
    /\ main_pc' = IF args.s3_upload THEN "spin"
                  ELSE IF args.postanalysis THEN "post" ELSE "update"
    /\ UNCHANGED <<args, file_list, objs, file_idx, binned_data, counters,
                   upload_queue, uploader_threads_running, threads, store,
                   sites_file, post_idx, post_avgs, qsize_seen, main_error>>
    /\ UNCHANGED <<confVars, notMain>>

\* lines 297-299: the size of the queue is logged (qsize_seen holds the size
\* logged last)
MainPoll ==
    /\ main_pc = "spin"
    /\ qsize_seen' = <<Len(upload_queue)>>
    /\ UNCHANGED <<args, file_list, objs, main_pc, file_idx, binned_data,
                   counters, upload_queue, uploader_threads_running, threads,
                   store, binned_file, sites_file, post_idx, post_avgs,
                   main_error>>
    /\ UNCHANGED <<confVars, notMain>>

\* lines 300-301: Ctrl-C
MainInterrupt ==
    /\ main_pc = "spin"
    /\ main_pc' = "exit1"
    /\ main_error' = "KeyboardInterrupt"
    /\ UNCHANGED <<args, file_list, objs, file_idx, binned_data, counters,
                   upload_queue, uploader_threads_running, threads, store,
                   binned_file, sites_file, post_idx, post_avgs, qsize_seen>>
    /\ UNCHANGED <<confVars, notMain>>

\* lines 313-340: one site of the post-analysis
PostSite ==
    /\ main_pc = "post"
    /\ post_idx <= Len(binned_data)
    /\ LET entry == binned_data[post_idx]
           k     == SiteAt(sites, entry.site)
           data  == [j \in 1..Len(entry.serial_data) |->
                        objs[entry.serial_data[j][2]]]
           a     == calculate_averages(data, MinCount, DescentMaxAlt)
       IN  IF ~a.is_none /\ a.raised
           THEN \* calculate_averages raised
                /\ main_pc' = "crashed"
                /\ main_error' = "IndexError"
                /\ UNCHANGED <<sites, post_avgs, post_idx>>
           ELSE /\ post_avgs' = Append(post_avgs, a)
                /\ sites' = [sites EXCEPT ![k] = PostUpdate(@, a)]
                /\ post_idx' = post_idx + 1
                /\ UNCHANGED <<main_pc, main_error>>
    /\ UNCHANGED <<args, file_list, objs, file_idx, binned_data,
                   counters, upload_queue, uploader_threads_running, threads,
                   store, binned_file, sites_file, qsize_seen>>
    /\ UNCHANGED <<radius, alt_limit, notMain>>

\* lines 345-363: the launch sites are written out, sorted by station
MainUpdate ==
    /\ main_pc \in {"post", "update"}
    /\ main_pc = "post" => post_idx > Len(binned_data)
    /\ sites_file' = IF args.updatesites
                     THEN [written |-> TRUE, data |-> sites]
                     ELSE sites_file
    /\ main_pc' = "done"
    /\ UNCHANGED <<args, file_list, objs, file_idx, binned_data, counters,
                   upload_queue, uploader_threads_running, threads, store,
                   binned_file, post_idx, post_avgs, qsize_seen, main_error>>
    /\ UNCHANGED <<confVars, notMain>>

(***************************************************************************)
(* An uploader thread (lines 159-168) running upload_summary_to_s3.         *)
(***************************************************************************)
\* line 166 after a call returned
AfterUploadMutant(t) == [NewThread EXCEPT !.pc = "ended"]
AfterUpload(t) ==
    IF uploader_threads_running THEN [NewThread EXCEPT !.pc = "get"]
    ELSE [NewThread EXCEPT !.pc = "ended"]

\* line 167, and lines 97-115 of the call
WorkerGetMutant(w) ==
    /\ threads[w].pc = "get"
    /\ upload_queue # <<>>
    /\ upload_queue' = upload_queue
    /\ threads' = [threads EXCEPT ![w] =
                      [pc |-> "clean", data |-> Head(upload_queue), i |-> 1,
                       dates |-> <<>>,
                       metadata |-> Metadata(objs[Head(upload_queue)])]]
    /\ UNCHANGED <<args, file_list, objs, main_pc, file_idx, binned_data,
                   counters, uploader_threads_running, store, binned_file,
                   sites_file, post_idx, post_avgs, qsize_seen, main_error>>
    /\ UNCHANGED <<confVars, notMain>>
WorkerGet(w) ==
    /\ threads[w].pc = "get"
    /\ upload_queue # <<>>
    /\ upload_queue' = Tail(upload_queue)
    /\ threads' = [threads EXCEPT ![w] =
                      [pc |-> "clean", data |-> Head(upload_queue), i |-> 1,
                       dates |-> <<>>,
                       metadata |-> Metadata(objs[Head(upload_queue)])]]
    /\ UNCHANGED <<args, file_list, objs, main_pc, file_idx, binned_data,
                   counters, uploader_threads_running, store, binned_file,
                   sites_file, post_idx, post_avgs, qsize_seen, main_error>>
    /\ UNCHANGED <<confVars, notMain>>

\* lines 116-133: one point of the summary
WorkerClean(w) ==
    /\ threads[w].pc = "clean"
    /\ LET t == threads[w]
           x == objs[t.data][t.i]
           date == DateOf(x.datetime)
           dates == IF \E k \in 1..Len(t.dates) : t.dates[k] = date
                    THEN t.dates ELSE Append(t.dates, date)
           c == CleanType(x)
       IN  IF c.discard
           THEN /\ threads' = [threads EXCEPT ![w] = AfterUpload(t)]
                /\ UNCHANGED objs
           ELSE /\ objs' = [objs EXCEPT ![t.data][t.i] = c.x]
                /\ threads' = [threads EXCEPT ![w] =
                       [t EXCEPT !.dates = dates,
                                 !.i = t.i + 1,
                                 !.pc = IF t.i = 3 THEN "upload" ELSE "clean"]]
    /\ UNCHANGED <<args, file_list, main_pc, file_idx, binned_data, counters,
                   upload_queue, uploader_threads_running, store, binned_file,
                   sites_file, post_idx, post_avgs, qsize_seen, main_error>>
    /\ UNCHANGED <<confVars, notMain>>

\* lines 136-153
WorkerUpload(w) ==
    /\ threads[w].pc = "upload"
    /\ LET t == threads[w]
           summary == objs[t.data]
       IN  /\ store' = store \cup Puts(summary, summary[1].serial,
                                       summary[1].launch_site, t.dates,
                                       t.metadata)
           /\ threads' = [threads EXCEPT ![w] = AfterUpload(t)]
    /\ UNCHANGED <<args, file_list, objs, main_pc, file_idx, binned_data,
                   counters, upload_queue, uploader_threads_running,
                   binned_file, sites_file, post_idx, post_avgs, qsize_seen,
                   main_error>>
    /\ UNCHANGED <<confVars, notMain>>

Next ==
    \/ MainStart \/ MainFile \/ MainPut \/ MainWrite \/ MainPoll
    \/ MainInterrupt \/ PostSite \/ MainUpdate
    \/ \E w \in 1..NumThreads : WorkerGet(w)
    \/ \E w \in 1..NumThreads : WorkerClean(w)
    \/ \E w \in 1..NumThreads : WorkerUpload(w)

Spec == MainInit /\ [][Next]_vars

\* The threads are scheduled fairly: a thread that can take a step takes one
\* (of the steps of one thread at most one is enabled, the poll of the queue
\* size aside).  The operator's Ctrl-C is under no such obligation.
MainStep ==
    \/ MainStart \/ MainFile \/ MainPut \/ MainWrite \/ MainPoll
    \/ PostSite \/ MainUpdate
WorkerStep(w) == WorkerGet(w) \/ WorkerClean(w) \/ WorkerUpload(w)
Fairness ==
    /\ WF_vars(MainStep)
    /\ \A w \in 1..NumThreads : WF_vars(WorkerStep(w))
FairSpec == MainInit /\ [][Next]_vars /\ Fairness

(***************************************************************************)
(* The post-analysis of a binned file given with --binnedinput.            *)
(***************************************************************************)
\* the flights of a binned site: FlightKinds 1 to 3
PostKinds == {1, 2, 3}
\* json.dumps of a binned_data with one site holding the given flights
BinnedFileOf(index, station, flights) ==
    [written |-> TRUE,
     data |-> <<[site |-> index[SiteAt(index, station)],
                 serials |-> [j \in 1..Len(flights) |-> SerialIds[j]],
                 serial_data |-> [j \in 1..Len(flights) |->
                                     <<SerialIds[j], flights[j]>>]]>>]

PostInit ==
    /\ args = [s3_upload |-> FALSE, postanalysis |-> TRUE, updatesites |-> TRUE,
               binnedinput |-> TRUE]
    /\ \E n \in 0..MaxFlights :
          \E f \in [1..n -> PostKinds] :
              \E station \in {"94672", "94866"} :
                 binned_file = BinnedFileOf(LaunchSites, station,
                                            [k \in 1..n |-> FlightKinds[f[k]]])
    /\ sites = LaunchSites
    /\ radius = DefaultRadius
    /\ alt_limit = DefaultAltLimit
    /\ file_list = <<>>
    /\ objs = <<>>
    /\ main_pc = "start"
    /\ file_idx = 1
    /\ binned_data = <<>>
    /\ counters = NoCounters
    /\ upload_queue = <<>>
    /\ uploader_threads_running = TRUE
    /\ threads = [w \in 1..NumThreads |-> NewThread]
    /\ store = {}
    /\ sites_file = Unwritten
    /\ post_idx = 1
    /\ post_avgs = <<>>
    /\ qsize_seen = <<>>
    /\ main_error = "none"
    /\ BinIdle
    /\ DensIdle
    /\ AvgIdle

\* lines 305-309: binned_data = json.loads(...); the summaries are new objects
MainLoad ==
    /\ main_pc = "load"
    /\ LET d == binned_file.data
           refs == {<<k, j>> : k \in 1..Len(d), j \in 1..MaxFlights + 1}
       IN  /\ binned_data' =
                 [k \in 1..Len(d) |->
                    [site |-> d[k].site.station,
                     serials |-> d[k].serials,
                     serial_data |-> [j \in 1..Len(d[k].serial_data) |->
                                         <<d[k].serial_data[j][1], <<k, j>>>>]]]
           /\ objs' = [r \in {q \in refs : q[2] <= Len(d[q[1]].serial_data)} |->
                          d[r[1]].serial_data[r[2]][2]]
    /\ main_pc' = IF args.postanalysis THEN "post" ELSE "update"
    /\ UNCHANGED <<args, file_list, file_idx, counters, upload_queue,
                   uploader_threads_running, threads, store, binned_file,
                   sites_file, post_idx, post_avgs, qsize_seen, main_error>>
    /\ UNCHANGED <<confVars, notMain>>

NextPost == MainStart \/ MainLoad \/ PostSite \/ MainUpdate

SpecPost == PostInit /\ [][NextPost]_vars

(***************************************************************************)
(* Claims about bin_launch_data (checked under SpecBin).                    *)
(***************************************************************************)
\* the great-circle distance, in km, from the fix to the i-th site of the index
SiteKm(i) == position_info(<<sites[i].lat, sites[i].lon, Num(0)>>,
                           Sonde(telemetry)).great_circle_distance \div 1000
SiteIsNum(i) == sites[i].lat.t = "num"
InsideRadius == {i \in 1..Len(sites) :
                    SiteIsNum(i) /\ 0 < SiteKm(i) /\ SiteKm(i) < radius}
Gated == telemetry.alt > alt_limit

\* C1: a fix whose altitude is strictly above alt_limit gets the no-site
\* result (None, 999999999) and no site is handed to position_info, however
\* close a site is (a malformed site cannot even raise); a fix whose altitude
\* equals alt_limit is not gated: the loop visits the sites.
C1_AltitudeGate ==
    /\ (bin_pc # "call" /\ Gated) =>
            /\ bin_pc = "returned"
            /\ bin_ret = <<None, NoDist>>
            /\ evaluated = <<>>
    /\ (bin_pc = "returned" /\ telemetry.alt = alt_limit) =>
            Len(evaluated) = Len(sites)
\* C1 witness: a gated fix has returned although a site lies inside the radius
C1_Witness ==
    /\ bin_pc = "returned" /\ Gated /\ InsideRadius # {}
    /\ \E i \in 1..Len(sites) : ~SiteIsNum(i)

\* C2: a returned site lies at a distance d with 0 < d < radius (both strict)
\* and the returned distance is d; and when the call returns for a fix that
\* is not gated and the least distance over the whole index is inside
\* (0, radius), the fix is bound to a site at that least distance.
C2_RadiusGate ==
    bin_pc = "returned" =>
        /\ bin_ret[1] # None =>
              \E i \in 1..Len(sites) :
                  /\ sites[i].station = bin_ret[1]
                  /\ SiteIsNum(i)
                  /\ 0 < SiteKm(i) /\ SiteKm(i) < radius
                  /\ bin_ret[2] = SiteKm(i)
        /\ (~Gated /\ sites # <<>>) =>
              LET least == CHOOSE d \in {SiteKm(i) : i \in 1..Len(sites)} :
                               \A j \in 1..Len(sites) : d <= SiteKm(j)
              IN  (0 < least /\ least < radius) =>
                      /\ bin_ret[2] = least
                      /\ \E i \in 1..Len(sites) :
                             sites[i].station = bin_ret[1] /\ SiteKm(i) = least
\* C2 witness: the index holds a site at distance 0, one at exactly the
\* radius and one inside, and the fix was bound to the one inside
C2_Witness ==
    /\ bin_pc = "returned" /\ bin_ret[1] # None
    /\ \E i, j, k \in 1..Len(sites) :
          /\ SiteIsNum(i) /\ SiteKm(i) = 0
          /\ SiteIsNum(j) /\ SiteKm(j) = radius
          /\ sites[k].station = bin_ret[1]

\* the first site, in iteration order, among the eligible ones at the least distance
FirstNearest ==
    LET least == CHOOSE d \in {SiteKm(i) : i \in InsideRadius} :
                     \A j \in InsideRadius : d <= SiteKm(j)
    IN  CHOOSE i \in InsideRadius :
            /\ SiteKm(i) = least
            /\ \A j \in InsideRadius : SiteKm(j) = least => i <= j

\* C3 (as amended): for a fix that is not gated, the call returns the station
\* and the distance of the eligible site at the least distance, the first in
\* iteration order when several share it, and (None, 999999999) when no site
\* is eligible; the returned distance is never larger than the distance of
\* an eligible site, and the returned id is None or a station of the index.
C3_NearestFirst ==
    (bin_pc = "returned" /\ ~Gated) =>
        /\ IF InsideRadius = {}
           THEN bin_ret = <<None, NoDist>>
           ELSE bin_ret = <<sites[FirstNearest].station, SiteKm(FirstNearest)>>
        /\ \A i \in InsideRadius : bin_ret[2] <= SiteKm(i)
        /\ bin_ret[1] \in {None} \cup {sites[i].station : i \in 1..Len(sites)}
\* C3 witness: two eligible sites share the least distance and a third is farther
C3_Witness ==
    /\ bin_pc = "returned" /\ ~Gated
    /\ \E i, j, k \in InsideRadius :
          /\ i < j /\ SiteKm(i) = SiteKm(j) /\ SiteKm(k) > SiteKm(i)
          /\ bin_ret[1] = sites[i].station
\* C3 as stated: the same, with the returned distance never smaller than the
\* distance of any eligible site
C3_AsStated ==
    (bin_pc = "returned" /\ ~Gated) =>
        /\ IF InsideRadius = {}
           THEN bin_ret = <<None, NoDist>>
           ELSE bin_ret = <<sites[FirstNearest].station, SiteKm(FirstNearest)>>
        /\ \A i \in InsideRadius : bin_ret[2] >= SiteKm(i)
        /\ bin_ret[1] \in {None} \cup {sites[i].station : i \in 1..Len(sites)}

\* C7: when position_info raises for a site, the run ends in a fatal error
\* (no result, no later site examined) and the error reported names the
\* offending site and the input fix.
C7_FatalErrorNamesSite ==
    (bin_pc \in {"exit1", "NameError"}) =>
        /\ site_idx - 1 \in 1..Len(sites)
        /\ ~SiteIsNum(site_idx - 1)
        /\ Len(evaluated) = site_idx - 1
        /\ ~ENABLED BinNext
        /\ scan.report.kind = "logged"
        /\ scan.report.site = sites[site_idx - 1].station
        /\ scan.report.sonde = Sonde(telemetry)

(***************************************************************************)
(* Claims about getDensity (checked under SpecDensity).                     *)
(***************************************************************************)
\* the index of the greatest boundary that is <= alt (alt >= 0)
GreatestBoundary(alt) ==
    CHOOSE k \in 0..7 :
        /\ At(altitudes, k) <= alt
        /\ \A j \in 0..7 : At(altitudes, j) <= alt => j <= k

\* C6: for a non-negative altitude getDensity selects the layer whose base
\* is the greatest boundary <= altitude, above 84852 m that is the last layer
\* (index 7), whose density it returns; the selection never reads the tables
\* outside their 8 entries.
C6_LayerSelection ==
    /\ dens_pc # "IndexError"
    /\ layer \in 0..7
    /\ (dens_pc \in {"lookup", "done"} /\ altitude >= 0) =>
            layer = GreatestBoundary(altitude)

(***************************************************************************)
(* Claims about calculate_averages (checked under SpecAvg).                 *)
(***************************************************************************)
\* the flights with a burst altitude above both the first and the last fix
BurstFlights ==
    {k \in 1..Len(serial_data) :
        /\ serial_data[k][2].alt > serial_data[k][1].alt
        /\ serial_data[k][2].alt > serial_data[k][3].alt}
\* the flights whose last fix is below the burst and below descent_max_alt
\* and carries a negative vel_v
DescentFlights ==
    {k \in 1..Len(serial_data) :
        /\ serial_data[k][3].alt < serial_data[k][2].alt
        /\ "vel_v" \in DOMAIN serial_data[k][3]
        /\ serial_data[k][3].vel_v < 0
        /\ serial_data[k][3].alt < DescentMaxAlt}
\* the sea-level-normalised rates of the descent flights, in flight order
RECURSIVE NormalisedRates(_)
NormalisedRates(k) ==
    IF k > Len(serial_data) THEN <<>>
    ELSE IF k \in DescentFlights
         THEN <<seaLevelDescentRate(serial_data[k][3].vel_v,
                                    serial_data[k][3].alt).rate>>
              \o NormalisedRates(k + 1)
         ELSE NormalisedRates(k + 1)
\* the raw rates of the descent flights, in mm/s
RECURSIVE RawRates(_)
RawRates(k) ==
    IF k > Len(serial_data) THEN <<>>
    ELSE IF k \in DescentFlights
         THEN <<serial_data[k][3].vel_v * 1000>> \o RawRates(k + 1)
         ELSE RawRates(k + 1)

\* C4: calculate_averages returns None exactly when fewer than min_count
\* flights have a burst altitude strictly above both the first-fix and the
\* last-fix altitude; otherwise it returns a result whose burst_count is the
\* number of such flights, whatever the descent samples and the types are.
C4_NoResultBelowMinCount ==
    avg_pc = "done" =>
        /\ avgs.is_none <=> Cardinality(BurstFlights) < MinCount
        /\ ~avgs.is_none =>
              /\ ~avgs.raised
              /\ avgs.burst_count = Cardinality(BurstFlights)
\* C4 witness: no result, although min_count flights gave a descent sample
\* and min_count - 1 flights a true burst
C4_Witness ==
    /\ avg_pc = "done" /\ avgs.is_none
    /\ Cardinality(DescentFlights) >= MinCount
    /\ Cardinality(BurstFlights) = MinCount - 1

\* C5: in a result, descent_count is the number of flights whose last fix is
\* below the burst altitude and below descent_max_alt with a negative vel_v;
\* descent_mean and descent_std are both -999.0 exactly when that number is
\* below min_count, and otherwise the mean and the standard deviation of the
\* sea-level-normalised rates.
C5_DescentStatistics ==
    (avg_pc = "done" /\ ~avgs.is_none) =>
        /\ avgs.descent_count = Cardinality(DescentFlights)
        /\ IF Cardinality(DescentFlights) < MinCount
           THEN avgs.descent_mean = Sentinel /\ avgs.descent_std = Sentinel
           ELSE /\ avgs.descent_mean # Sentinel /\ avgs.descent_std # Sentinel
                /\ avgs.descent_mean = Mean(NormalisedRates(1))
                /\ avgs.descent_std = Std(NormalisedRates(1))
\* C5 witness: a result whose descent statistics are computed, differ from
\* those of the raw rates, and come from fewer flights than were handed in
C5_Witness ==
    /\ avg_pc = "done" /\ ~avgs.is_none
    /\ avgs.descent_count >= MinCount
    /\ avgs.descent_count < Len(serial_data)
    /\ avgs.descent_mean # Abs(Mean(RawRates(1)))
    /\ avgs.descent_std > 0


(***************************************************************************)
(* Claims about the main loop and the uploader threads.                    *)
(***************************************************************************)
\* the content is not a sequence of exactly three records
Malformed(content) ==
    ~content.parses \/ ~content.has_len \/ content.len # 3 \/ ~content.records
\* a step of the main thread inside the file loop
MainLoopStep == main_pc = "loop" /\ (file_idx' # file_idx \/ main_pc' # main_pc)

\* C8: a file whose content does not parse or is not a sequence of exactly
\* three records is rejected: load_summary_file returns None, the main loop
\* neither bins, annotates, stores nor enqueues it, a counter is incremented
\* for it, and the loop goes on with the next file.
C8_MalformedFileRejected ==
    [][(MainLoopStep /\ file_idx <= Len(file_list)
           /\ Malformed(file_list[file_idx]))
       => /\ load_summary_file(file_list[file_idx]).is_none
          /\ objs' = objs
          /\ binned_data' = binned_data
          /\ Len(upload_queue') <= Len(upload_queue)
          /\ counters' # counters
          /\ main_pc' = "loop"
          /\ file_idx' = file_idx + 1]_vars

\* the point is one upload_summary_to_s3 returns at
UnknownPoint(x) ==
    /\ x.type = "payload_telemetry"
    /\ FirstWord(x.comment) \notin DOMAIN ALLOWED_TYPE_CHANGES
Unrecognised(summary) == \E k \in 1..3 : UnknownPoint(summary[k])
\* the point carries a comment whose first word is in the table
KnownPoint(x) ==
    /\ "comment" \in DOMAIN x
    /\ FirstWord(x.comment) \in DOMAIN ALLOWED_TYPE_CHANGES
Replaced(x) == x.type = ALLOWED_TYPE_CHANGES[FirstWord(x.comment)]
InQueue(f) == \E k \in 1..Len(upload_queue) : upload_queue[k] = f
Holds(w, f) == threads[w].pc \in {"clean", "upload"} /\ threads[w].data = f
\* summary f was enqueued and a worker is through with it
Handled(f) ==
    /\ args.s3_upload
    /\ f \in DOMAIN objs
    /\ "launch_site_range_estimate" \in DOMAIN objs[f][1]
    /\ ~(main_pc = "put" /\ file_idx = f)
    /\ ~InQueue(f)
    /\ \A w \in 1..NumThreads : ~Holds(w, f)
StoredFor(f) == {o \in store : o.path[Len(o.path)] = objs[f][1].serial}
\* thread w is about to return from upload_summary_to_s3 at line 128
AtUnknownPoint(w) ==
    /\ threads[w].pc = "clean"
    /\ UnknownPoint(objs[threads[w].data][threads[w].i])

\* C9: a summary with a payload_telemetry point whose first comment word is
\* not a key of ALLOWED_TYPE_CHANGES is discarded: nothing is ever put to the
\* store for it, and the thread that handled it goes back to take the next
\* item of the queue.  In a summary a worker is through with, a point whose
\* first comment word is in the table has its type replaced by the table's
\* value exactly when no point before it is an unrecognised one.
C9_UnknownTypeDiscarded ==
    /\ [](\A f \in DOMAIN objs :
            /\ Unrecognised(objs[f]) => StoredFor(f) = {}
            /\ Handled(f) =>
                 \A k \in 1..3 :
                    KnownPoint(objs[f][k]) =>
                       (Replaced(objs[f][k])
                          <=> \A j \in 1..(k - 1) : ~UnknownPoint(objs[f][j])))
    /\ [][\A w \in 1..NumThreads :
            (AtUnknownPoint(w) /\ threads'[w] # threads[w])
               => /\ threads'[w].pc = "get"
                  /\ store' = store]_vars
\* a discarded summary is through, its first point rewritten and its last
\* not, and the store holds a summary uploaded next to it
C9_Witness ==
    \E f \in DOMAIN objs :
       /\ Handled(f)
       /\ Unrecognised(objs[f])
       /\ KnownPoint(objs[f][1]) /\ Replaced(objs[f][1])
       /\ KnownPoint(objs[f][3]) /\ ~Replaced(objs[f][3])
       /\ StoredFor(f) = {}
       /\ \E g \in DOMAIN objs : g > f /\ StoredFor(g) # {}
       /\ \A w \in 1..NumThreads : threads[w].pc = "get"
\* C9 as stated: in a summary a worker is through with, every point whose
\* first comment word is in the table has its type replaced.
C9_AsStated ==
    \A f \in DOMAIN objs :
       Handled(f) => \A k \in 1..3 : KnownPoint(objs[f][k]) => Replaced(objs[f][k])

\* the fields of the site record of the k-th analysed site
PostSiteOf(k) == sites[SiteAt(sites, binned_data[k].site)]
BurstFields == {"burst_altitude", "burst_samples", "burst_std"}
DescentFields == {"descent_rate", "descent_samples", "descent_std"}

\* C10: after the post-analysis of a site, its record has burst_altitude,
\* burst_samples and burst_std when calculate_averages returned a result, and
\* descent_rate, descent_samples and descent_std whenever that result's
\* descent_mean is not the sentinel -999.0; with no result it has none of them.
C10_PostAnalysisFields ==
    \A k \in 1..Len(post_avgs) :
       LET a == post_avgs[k]
           site == PostSiteOf(k)
       IN  IF a.is_none
           THEN (BurstFields \cup DescentFields) \cap DOMAIN site = {}
           ELSE /\ BurstFields \subseteq DOMAIN site
                /\ a.descent_mean # Sentinel => DescentFields \subseteq DOMAIN site


\* the summary the f-th file holds, and what bin_launch_data returns for it
Loaded(f) == file_list[f].data
BinOf(f) == bin_launch_data(Loaded(f)[1], sites, radius, alt_limit)
\* the main loop bins the f-th file to a site
Bins(f) ==
    /\ "launch_site" \notin DOMAIN Loaded(f)[1]
    /\ BinOf(f).status = "returned"
    /\ BinOf(f).ret[1] # None
\* all three points carry the site id and 1000 times the distance in km
Annotated(f) ==
    \A k \in 1..3 :
       /\ "launch_site" \in DOMAIN objs[f][k]
       /\ "launch_site_range_estimate" \in DOMAIN objs[f][k]
       /\ objs[f][k].launch_site = BinOf(f).ret[1]
       /\ objs[f][k].launch_site_range_estimate = BinOf(f).ret[2] * 1000
\* binned_data refers to summary f
InBinned(f) ==
    \E k \in 1..Len(binned_data) :
       \E j \in 1..Len(binned_data[k].serial_data) :
          binned_data[k].serial_data[j][2] = f
\* the summary is on the queue, with a worker, or in the store
Published(f) ==
    \/ InQueue(f)
    \/ \E w \in 1..NumThreads : Holds(w, f)
    \/ StoredFor(f) # {}

\* C11: a summary the main loop bins carries the same launch_site and the
\* same launch_site_range_estimate (1000 times the distance in km) on all
\* three points once the main loop has stored it in binned_data (lines
\* 252-264 run before the put of line 269), hence whenever it is on the
\* queue, with a worker or stored, and every object in the store has
\* launch_site set; a summary
\* that already had a launch_site, or that bins to no site, stays as it was
\* loaded and is never in binned_data, on the queue, with a worker or stored.
C11_AnnotationBeforeUpload ==
    /\ \A f \in DOMAIN objs :
          IF Bins(f)
          THEN (InBinned(f) \/ Published(f)) => Annotated(f)
          ELSE /\ objs[f] = Loaded(f)
               /\ ~InBinned(f)
               /\ ~Published(f)
    /\ \A o \in store :
          /\ "launch_site" \in DOMAIN o.body[1]
          /\ o.metadata.launch_site = o.body[1].launch_site
          /\ \E f \in DOMAIN objs : Bins(f) /\ o.path[Len(o.path)] = Loaded(f)[1].serial
\* one summary was binned, annotated and uploaded, the other was not binned
C11_Witness ==
    \E f, g \in DOMAIN objs :
       /\ Bins(f) /\ Annotated(f) /\ StoredFor(f) # {}
       /\ ~Bins(g) /\ objs[g] = Loaded(g) /\ file_idx > g


\* the places summary f is in: positions of the queue and workers holding it
Places(f) ==
    Cardinality({k \in 1..Len(upload_queue) : upload_queue[k] = f})
    + Cardinality({w \in 1..NumThreads : Holds(w, f)})
\* the main loop has put summary f on the queue
Enqueued(f) ==
    /\ args.s3_upload
    /\ f \in DOMAIN objs
    /\ Bins(f)
    /\ file_idx > f
\* thread w takes an item in this step
Takes(w) == threads[w].pc = "get" /\ threads'[w].pc # "get"

\* C12: every summary the main loop enqueues is in exactly one place (one
\* position of the queue or one worker) until its handling is over, and is
\* never in any place again afterwards: the queue only grows by the main
\* loop's put of the current file and only shrinks by its head going to the
\* one worker that takes it.  Under fair scheduling every summary on the queue
\* is eventually handled, and the queue eventually is and stays empty.
C12_EachSummaryHandledOnce ==
    /\ [](\A f \in 1..Len(file_list) :
            /\ Places(f) <= 1
            /\ Enqueued(f) =>
                 \/ Places(f) = 1 /\ StoredFor(f) = {}
                 \/ Places(f) = 0 /\ (StoredFor(f) # {} \/ Unrecognised(objs[f]))
            /\ Places(f) = 1 => (Enqueued(f) \/ (main_pc = "put" /\ file_idx = f)))
    /\ [][/\ upload_queue' # upload_queue =>
              \/ /\ main_pc = "put"
                 /\ upload_queue' = Append(upload_queue, file_idx)
                 /\ file_idx' = file_idx + 1
                 /\ threads' = threads
              \/ /\ upload_queue # <<>>
                 /\ upload_queue' = Tail(upload_queue)
                 /\ Cardinality({w \in 1..NumThreads : Takes(w)}) = 1
          /\ \A w \in 1..NumThreads :
                Takes(w) => /\ upload_queue # <<>>
                            /\ threads'[w].data = Head(upload_queue)
                            /\ upload_queue' = Tail(upload_queue)
                            /\ \A v \in 1..NumThreads :
                                  v # w => threads'[v] = threads[v]]_vars
    /\ \A f \in 1..MaxFiles : (InQueue(f) ~> Handled(f))
    /\ <>[](upload_queue = <<>>)
\* two workers hold two different summaries at once, the queue is empty
C12_Witness ==
    /\ upload_queue = <<>>
    /\ \E f, g \in DOMAIN objs :
          /\ f # g
          /\ Holds(1, f) /\ Holds(2, g)
          /\ Places(f) = 1 /\ Places(g) = 1


\* the 'type' values of a serialised binned_data
TypesOf(data) ==
    [k \in 1..Len(data) |->
       [j \in 1..Len(data[k].serial_data) |->
          [p \in 1..3 |-> data[k].serial_data[j][2][p].type]]]

\* C13: the 'type' values in the binned output file do not depend on whether
\* a worker handled a summary before or after the file was written: what was
\* written at line 284 is what writing it at any later moment would give.
C13_BinnedFileDeterministic ==
    binned_file.written =>
       TypesOf(binned_file.data) = TypesOf(Dump(binned_data, objs, sites).data)

\* C14: in a run with s3_upload the main thread never reaches the
\* post-analysis or the launch-sites output, leaves the polling loop only by
\* the interrupt, with exit status 1, and changes nothing but the logged
\* queue size while it polls; uploader_threads_running stays true and no
\* uploader thread ends, also when the queue is empty.
C14_UploadRunEndsByInterrupt ==
    /\ [](/\ uploader_threads_running
          /\ args.s3_upload =>
               /\ main_pc \notin {"load", "post", "update", "done"}
               /\ post_idx = 1 /\ post_avgs = <<>>
               /\ ~sites_file.written
               /\ \A w \in 1..NumThreads :
                     threads[w].pc \in {"new", "get", "clean", "upload"}
               /\ main_pc = "spin"
                     => binned_file.written /\ file_idx > Len(file_list))
    /\ [][(args.s3_upload /\ main_pc = "spin")
          => /\ main_pc' # "spin"
                => main_pc' = "exit1" /\ main_error' = "KeyboardInterrupt"
             /\ UNCHANGED <<file_idx, binned_data, counters, binned_file,
                            sites, sites_file, post_idx, post_avgs>>]_vars
\* the operator interrupted the polling of an empty queue: every summary is
\* handled, every thread waits in get
C14_Witness ==
    /\ args.s3_upload
    /\ main_pc = "exit1" /\ main_error = "KeyboardInterrupt"
    /\ qsize_seen = <<0>>
    /\ upload_queue = <<>>
    /\ store # {}
    /\ \A w \in 1..NumThreads : threads[w].pc = "get"

====
